---- MODULE Spec2Model ----
(***************************************************************************)
(* A model of the expense tracker in src/app.py: the SQLite store (the     *)
(* providers and expenses tables with their constraints), the receipts     *)
(* directory, the request handlers (index, edit, delete, add_provider,     *)
(* export_excel) and the spreadsheet the export builds.                    *)
(*                                                                         *)
(* Text values (provider names, file names) are sequences of one-character *)
(* strings, so that trimming, splitting, title-casing and sanitising are   *)
(* computed character by character as the code computes them.              *)
(***************************************************************************)
EXTENDS Integers, Sequences, FiniteSets, TLC

VARIABLES
    providers,   \* the providers table: a set of rows [id, name]
    provSeq,     \* sqlite_sequence of providers (AUTOINCREMENT)
    expenses,    \* the expenses table: a set of rows, id and the eleven columns
    expSeq,      \* sqlite_sequence of expenses (AUTOINCREMENT)
    files,       \* the receipts directory: a set of files [name, content]
    now,         \* the current month, datetime.now().strftime("%Y-%m")
    normalises,  \* whether the SQLite build normalises a parsed date with day > 28
    last,        \* the last request served, with its response
    submitted,   \* history: the provider names ever submitted, lower-cased and trimmed
    rowset,      \* a row-set to hand to the report generator
    conc         \* the concurrent edit requests in flight: position and locals

vars == <<providers, provSeq, expenses, expSeq, files, now, normalises, last,
          submitted, rowset, conc>>

\* ------------------------------------------------------------------ bounds

MaxLen == 3
MaxProvSeq == 3
MaxExpSeq == 1
MaxQueryRows == 2
MaxRows == 3
FloatBits == 3

NULL == "NULL"

\* A form field as submitted: present or absent, and for a field the code converts
\* with int() or float(), whether its text is a number
Text(v) == [present |-> TRUE, value |-> v]

NoText == [present |-> FALSE, value |-> <<>>]

NoDate == [present |-> FALSE, value |-> <<0, 0, 0>>]

Choice(v) == [present |-> TRUE, value |-> v]

NoChoice == [present |-> FALSE, value |-> ""]

Number(n) == [present |-> TRUE, numeric |-> TRUE, value |-> n]

NotANumber == [present |-> TRUE, numeric |-> FALSE, value |-> 0]

NoNumber == [present |-> FALSE, numeric |-> FALSE, value |-> 0]

\* ------------------------------------------------------------------ text

RECURSIVE SeqsUpTo(_, _)
SeqsUpTo(S, n) ==
    IF n = 0 THEN {<<>>}
    ELSE LET shorter == SeqsUpTo(S, n - 1)
         IN  shorter \cup {Append(s, c) : s \in {t \in shorter : Len(t) = n - 1}, c \in S}

IsSpace(c) == c \in {" ", "\n"}

IsLetter(c) == c \in {"a", "A", "b", "B"}

UpperC(c) == IF c = "a" THEN "A" ELSE IF c = "b" THEN "B" ELSE c

LowerC(c) == IF c = "A" THEN "a" ELSE IF c = "B" THEN "b" ELSE c

RECURSIVE LStrip(_)
LStrip(s) ==
    IF s = <<>> THEN <<>>
    ELSE IF IsSpace(Head(s)) THEN LStrip(Tail(s)) ELSE s

RECURSIVE RStrip(_)
RStrip(s) ==
    IF s = <<>> THEN <<>>
    ELSE IF IsSpace(s[Len(s)]) THEN RStrip(SubSeq(s, 1, Len(s) - 1)) ELSE s

\* str.strip()
Strip(s) == RStrip(LStrip(s))

\* str.replace("\n", ",")
ReplaceNewlines(s) == [i \in 1..Len(s) |-> IF s[i] = "\n" THEN "," ELSE s[i]]

\* str.split(","): the pieces between the commas, empty pieces included
RECURSIVE SplitCommas(_, _)
SplitCommas(s, piece) ==
    IF s = <<>> THEN <<piece>>
    ELSE IF Head(s) = "," THEN <<piece>> \o SplitCommas(Tail(s), <<>>)
    ELSE SplitCommas(Tail(s), Append(piece, Head(s)))

\* The names stored as typed, without str.title()
TitleIdentity(s) == s

\* str.title(): a letter after a letter is lower-cased, any other letter upper-cased
Title(s) ==
    [i \in 1..Len(s) |->
        IF i > 1 /\ IsLetter(s[i - 1]) THEN LowerC(s[i]) ELSE UpperC(s[i])]

\* str.lower(), used to say "differ only in case"
Lower(s) == [i \in 1..Len(s) |-> LowerC(s[i])]

RECURSIVE SelectNonBlank(_)
SelectNonBlank(ps) ==
    IF ps = <<>> THEN <<>>
    ELSE IF Strip(Head(ps)) # <<>>
         THEN <<Head(ps)>> \o SelectNonBlank(Tail(ps))
         ELSE SelectNonBlank(Tail(ps))

\* for n in raw_names.replace("\n", ",").split(",") if n.strip()
NamePieces(raw_names) == SelectNonBlank(SplitCommas(ReplaceNewlines(raw_names), <<>>))

\* names = [n.strip().title() for n in ... if n.strip()]
ProviderNames(raw_names) ==
    LET pieces == NamePieces(raw_names)
    IN  [i \in 1..Len(pieces) |-> Title(Strip(pieces[i]))]

\* ------------------------------------------------------------------ providers table

ProviderIds == {p.id : p \in providers}

\* INSERT OR IGNORE INTO providers(name): the UNIQUE name decides; the AUTOINCREMENT
\* sequence advances for an ignored row too
InsertOrIgnore(tbl, name) ==
    IF \E p \in tbl.rows : p.name = name
    THEN [rows |-> tbl.rows, seq |-> tbl.seq + 1]
    ELSE [rows |-> tbl.rows \cup {[id |-> tbl.seq + 1, name |-> name]}, seq |-> tbl.seq + 1]

\* conn.executemany(...): one INSERT OR IGNORE per name, in order
RECURSIVE ExecuteMany(_, _)
ExecuteMany(tbl, names) ==
    IF names = <<>> THEN tbl
    ELSE ExecuteMany(InsertOrIgnore(tbl, Head(names)), Tail(names))

Request(op, id, form, file, args, result, body) ==
    [op |-> op, id |-> id, form |-> form, file |-> file, args |-> args,
     result |-> result, body |-> body]

\* POST /providers/add
add_provider(raw) ==
    LET raw_names == Strip(raw)
        names == ProviderNames(raw_names)
        tbl == ExecuteMany([rows |-> providers, seq |-> provSeq], names)
    IN  /\ provSeq + Len(names) <= MaxProvSeq
        /\ IF raw_names = <<>> \/ names = <<>>
           THEN UNCHANGED <<providers, provSeq>>
           ELSE /\ providers' = tbl.rows
                /\ provSeq' = tbl.seq
        /\ submitted' = submitted \cup
               {Lower(Strip(NamePieces(raw_names)[i])) : i \in 1..Len(names)}
        /\ last' = Request("add_provider", 0, names, NULL, NULL, "redirect", NULL)
        /\ UNCHANGED <<expenses, expSeq, files, now, normalises, rowset, conc>>

\* ------------------------------------------------------------------ expenses table

PaymentTypes == {"na", "cash", "card", "transfer", "sinpe"}

Currencies == {"CRC", "USD"}

ExpenseIds == {e.id : e \in expenses}

ExpenseById(id) == CHOOSE e \in expenses : e.id = id

\* request.form.get(key, ""): an absent text field reads as the empty text
GetOrEmpty(field) == IF field.present THEN field.value ELSE <<>>

\* The first exception that building the column tuple raises, in the order the tuple
\* is written: request.form[key] of a missing key is a 400, int() and float() of a
\* text that is no number a ValueError
FormError(form) ==
    IF ~form.date.present THEN "bad_request"
    ELSE IF ~form.proveedor_id.present THEN "bad_request"
    ELSE IF ~form.proveedor_id.numeric THEN "value_error"
    ELSE IF ~form.payment_type.present THEN "bad_request"
    ELSE IF ~form.amount.present THEN "bad_request"
    ELSE IF ~form.amount.numeric THEN "value_error"
    ELSE IF ~form.currency.present THEN "bad_request"
    ELSE "none"

\* The eleven columns of the INSERT and of the UPDATE
Columns(form, receipt_path) ==
    [date |-> form.date.value,
     payment_ref |-> GetOrEmpty(form.payment_ref),
     factura_ref |-> GetOrEmpty(form.factura_ref),
     proveedor_id |-> form.proveedor_id.value,
     payment_type |-> form.payment_type.value,
     amount |-> form.amount.value,
     currency |-> form.currency.value,
     details |-> GetOrEmpty(form.details),
     delivered_email |-> IF form.delivered_email THEN 1 ELSE 0,
     factura_aparte |-> IF form.factura_aparte THEN 1 ELSE 0,
     receipt_path |-> receipt_path]

WithId(id, cols) == [id |-> id] @@ cols

\* A connection without PRAGMA foreign_keys = ON
ForeignKeyOff(cols) == TRUE

\* PRAGMA foreign_keys = ON and FOREIGN KEY (proveedor_id) REFERENCES providers(id)
ForeignKeyHolds(cols) == cols.proveedor_id \in ProviderIds

\* The CHECK constraints of the expenses table
ChecksHold(cols) ==
    /\ cols.payment_type \in PaymentTypes
    /\ cols.currency \in Currencies

ConstraintsHold(cols) == ChecksHold(cols) /\ ForeignKeyHolds(cols)

\* Whether the INSERT of this form adds a row
Inserts(form) ==
    FormError(form) = "none" /\ ConstraintsHold(Columns(form, GetOrEmpty(form.receipt_path)))

\* POST /: the INSERT of one expense
index_post(form) ==
    LET err == FormError(form)
        cols == Columns(form, GetOrEmpty(form.receipt_path))
    IN  /\ IF err # "none"
           THEN /\ last' = Request("create", 0, form, NULL, NULL, err, NULL)
                /\ UNCHANGED <<expenses, expSeq>>
           ELSE IF ~ConstraintsHold(cols)
           THEN /\ last' = Request("create", 0, form, NULL, NULL, "integrity_error", NULL)
                /\ UNCHANGED <<expenses, expSeq>>
           ELSE /\ expenses' = expenses \cup {WithId(expSeq + 1, cols)}
                /\ expSeq' = expSeq + 1
                /\ last' = Request("create", expSeq + 1, form, NULL, NULL, "redirect", NULL)
        /\ UNCHANGED <<providers, provSeq, files, now, normalises, submitted, rowset, conc>>

\* ------------------------------------------------------------------ receipts

FileChars == {"a", ".", "/"}

IsSafeChar(c) == c \in {"a", "b", "A", "B", ".", "_", "-"}

\* filename.replace(os.sep, " ")
ReplaceSeparators(s) == [i \in 1..Len(s) |-> IF s[i] = "/" THEN " " ELSE s[i]]

\* "_".join(filename.split()): runs of white space become one "_", none at the ends
RECURSIVE JoinWords(_, _, _)
JoinWords(s, out, pending) ==
    IF s = <<>> THEN out
    ELSE IF IsSpace(Head(s))
         THEN JoinWords(Tail(s), out, out # <<>>)
         ELSE JoinWords(Tail(s),
                        Append(IF pending THEN Append(out, "_") ELSE out, Head(s)),
                        FALSE)

\* str.strip("._")
RECURSIVE StripDotsUnderscores(_)
StripDotsUnderscores(s) ==
    IF s = <<>> THEN <<>>
    ELSE IF Head(s) \in {".", "_"} THEN StripDotsUnderscores(Tail(s))
    ELSE IF s[Len(s)] \in {".", "_"} THEN StripDotsUnderscores(SubSeq(s, 1, Len(s) - 1))
    ELSE s


\* werkzeug.utils.secure_filename
secure_filename(filename) ==
    StripDotsUnderscores(
        SelectSeq(JoinWords(ReplaceSeparators(filename), <<>>, FALSE), IsSafeChar))

\* if file and file.filename: a file part with a non-empty name was uploaded
Uploaded(file) == file.present /\ file.filename # <<>>

\* file.save(RECEIPTS_DIR / filename): the file is created or overwritten
SaveFile(dir, filename, content) ==
    {f \in dir : f.name # filename} \cup {[name |-> filename, content |-> content]}

\* SELECT receipt_path FROM expenses WHERE id=?; current_receipt = e[...] if e else ""
CurrentReceipt(id) ==
    IF id \in ExpenseIds THEN ExpenseById(id).receipt_path ELSE <<>>

\* An edit that keeps only the name of a file uploaded with it
ReceiptPathDropped(file, current_receipt) ==
    IF Uploaded(file) THEN secure_filename(file.filename) ELSE <<>>

\* receipt_path: the sanitised name of the uploaded file, else the one read before
ReceiptPath(file, current_receipt) ==
    IF Uploaded(file) THEN secure_filename(file.filename) ELSE current_receipt

\* UPDATE expenses SET <the eleven columns> WHERE id=?
UpdateRow(id, cols) ==
    {IF e.id = id THEN WithId(id, cols) ELSE e : e \in expenses}

\* POST /edit/<id>: the receipt is read, the uploaded file saved, the column tuple
\* built, and the row updated, in this order
edit(id, form, file) ==
    LET current_receipt == CurrentReceipt(id)
        receipt_path == ReceiptPath(file, current_receipt)
        saves == Uploaded(file)
        err == FormError(form)
        cols == Columns(form, receipt_path)
        respond(result) == last' = Request("edit", id, form, file, NULL, result, NULL)
    IN  /\ IF saves /\ receipt_path = <<>>
           THEN \* RECEIPTS_DIR / "" is the directory itself: file.save raises
                /\ respond("os_error")
                /\ UNCHANGED <<files, expenses>>
           ELSE /\ files' = IF saves THEN SaveFile(files, receipt_path, file.content)
                                     ELSE files
                /\ IF err # "none"
                   THEN /\ respond(err)
                        /\ UNCHANGED expenses
                   ELSE IF id \notin ExpenseIds
                   THEN /\ respond("redirect")
                        /\ UNCHANGED expenses
                   ELSE IF ~ConstraintsHold(cols)
                   THEN /\ respond("integrity_error")
                        /\ UNCHANGED expenses
                   ELSE /\ respond("redirect")
                        /\ expenses' = UpdateRow(id, cols)
        /\ UNCHANGED <<providers, provSeq, expSeq, now, normalises, submitted, rowset, conc>>

\* POST /delete/<id>
delete(id) ==
    /\ expenses' = {e \in expenses : e.id # id}
    /\ last' = Request("delete", id, NULL, NULL, NULL, "redirect", NULL)
    /\ UNCHANGED <<providers, provSeq, expSeq, files, now, normalises, submitted, rowset, conc>>

\* ------------------------------------------------------------------ the query

\* A stored date is the text YYYY-MM-DD, written here <<YYYY, MM, DD>>: three fields of
\* fixed width, so that the text's order is the order of the triples and its first
\* seven characters are <<YYYY, MM>>. MM and DD are any two digits.
DateLess(a, b) ==
    \/ a[1] < b[1]
    \/ a[1] = b[1] /\ a[2] < b[2]
    \/ a[1] = b[1] /\ a[2] = b[2] /\ a[3] < b[3]

NoMonth == <<0, 0>>

IsLeap(y) == (y % 4 = 0 /\ y % 100 # 0) \/ y % 400 = 0

DaysInMonth(y, m) ==
    IF m = 2 THEN (IF IsLeap(y) THEN 29 ELSE 28)
    ELSE IF m \in {4, 6, 9, 11} THEN 30 ELSE 31

\* SQLite's date parser takes MM in 01..12 and DD in 01..31, whatever the month
ParsesAsDate(date) == date[2] \in 1..12 /\ date[3] \in 1..31

PrefixYM(date) == <<date[1], date[2]>>

\* strftime('%Y-%m', e.date): NULL (NoMonth) for a text SQLite cannot parse; for a
\* day past the end of its month the text's own year and month, or, in the SQLite
\* builds that normalise such a date, those of the following month
StrftimeYM(date) ==
    IF ~ParsesAsDate(date) THEN NoMonth
    ELSE IF normalises /\ date[3] > DaysInMonth(date[1], date[2])
         THEN <<date[1], date[2] + 1>>
         ELSE <<date[1], date[2]>>

\* A query parameter: request.args.get(key) is None, or the text given
Absent == [given |-> FALSE, value |-> <<>>]

Given(v) == [given |-> TRUE, value |-> v]

\* if month: / if provider: / if payment_type: an absent or empty parameter is falsy
Truthy(arg) == arg.given /\ arg.value # <<>>

RECURSIVE ScanByRowid(_)
\* SCAN e: the rows of a table in rowid order
ScanByRowid(rows) ==
    IF rows = {} THEN <<>>
    ELSE LET first == CHOOSE e \in rows : \A f \in rows : e.id <= f.id
         IN  <<first>> \o ScanByRowid(rows \ {first})

RECURSIVE InsertDateDesc(_, _)
InsertDateDesc(sorted, e) ==
    IF sorted = <<>> THEN <<e>>
    ELSE IF DateLess(Head(sorted).date, e.date)
         THEN <<e>> \o sorted
         ELSE <<Head(sorted)>> \o InsertDateDesc(Tail(sorted), e)

RECURSIVE OrderByDateDesc(_, _)
\* ORDER BY e.date DESC: rows of equal date stay in the order the scan produced them
OrderByDateDesc(rows, sorted) ==
    IF rows = <<>> THEN sorted
    ELSE OrderByDateDesc(Tail(rows), InsertDateDesc(sorted, Head(rows)))

\* JOIN providers p ON p.id = e.proveedor_id: the row with its provider's name
Joined(e) ==
    [proveedor |-> (CHOOSE p \in providers : p.id = e.proveedor_id).name] @@ e

JoinedScan ==
    LET scan == ScanByRowid(expenses)
        HasProvider(e) == e.proveedor_id \in ProviderIds
        rows == SelectSeq(scan, HasProvider)
    IN  [i \in 1..Len(rows) |-> Joined(rows[i])]

\* The filter as a comparison of the first seven characters of the text
MonthIsPrefix(e, month) == PrefixYM(e.date) = month

\* AND strftime('%Y-%m', e.date) = ?
MonthIs(e, month) == StrftimeYM(e.date) # NoMonth /\ StrftimeYM(e.date) = month

\* AND e.proveedor_id = ?: the parameter is the text of a provider id
ProviderIs(e, provider) == <<e.proveedor_id>> = provider

\* AND e.payment_type = ?
PaymentTypeIs(e, payment_type) == <<e.payment_type>> = payment_type

\* The WHERE clause index builds: month is the parameter or the current month
IndexWhere(e, month, provider, payment_type) ==
    /\ month # <<>> => MonthIs(e, month)
    /\ Truthy(provider) => ProviderIs(e, provider.value)
    /\ Truthy(payment_type) => PaymentTypeIs(e, payment_type.value)

\* The columns index selects
IndexRow(e) ==
    [id |-> e.id, date |-> e.date, proveedor_id |-> e.proveedor_id,
     payment_ref |-> e.payment_ref, factura_ref |-> e.factura_ref,
     proveedor |-> e.proveedor, payment_type |-> e.payment_type, amount |-> e.amount,
     currency |-> e.currency, details |-> e.details,
     delivered_email |-> e.delivered_email, factura_aparte |-> e.factura_aparte,
     receipt_path |-> e.receipt_path]

\* index, GET: the query of the listing
IndexQuery(args) ==
    LET current_month == now
        month == IF Truthy(args.month) THEN args.month.value ELSE current_month
        Keep(e) == IndexWhere(e, month, args.provider, args.payment_type)
        rows == OrderByDateDesc(SelectSeq(JoinedScan, Keep), <<>>)
    IN  [i \in 1..Len(rows) |-> IndexRow(rows[i])]

\* An export without the payment_type condition
ExportWhereIgnoresPaymentType(e, month, provider, payment_type) ==
    /\ Truthy(month) => MonthIs(e, month.value)
    /\ Truthy(provider) => ProviderIs(e, provider.value)

\* The WHERE clause export_excel builds
ExportWhere(e, month, provider, payment_type) ==
    /\ Truthy(month) => MonthIs(e, month.value)
    /\ Truthy(provider) => ProviderIs(e, provider.value)
    /\ Truthy(payment_type) => PaymentTypeIs(e, payment_type.value)

\* The columns export_excel selects
ExportRow(e) ==
    [date |-> e.date, proveedor |-> e.proveedor, payment_type |-> e.payment_type,
     amount |-> e.amount, currency |-> e.currency, factura_ref |-> e.factura_ref,
     payment_ref |-> e.payment_ref, delivered_email |-> e.delivered_email,
     factura_aparte |-> e.factura_aparte, details |-> e.details]

\* export_excel: the query of the export
ExportQuery(args) ==
    LET Keep(e) == ExportWhere(e, args.month, args.provider, args.payment_type)
        rows == OrderByDateDesc(SelectSeq(JoinedScan, Keep), <<>>)
    IN  [i \in 1..Len(rows) |-> ExportRow(rows[i])]

\* ------------------------------------------------------------------ amounts

\* An amount is a binary floating-point number (REAL in the table, float in Python),
\* modelled with a significand of FloatBits bits instead of 53 and written as the
\* integer it equals: a sum that needs more bits is rounded to the nearest
\* representable number, a tie to the one with an even significand.
RECURSIVE UnitOf(_, _)
UnitOf(n, unit) == IF n < (2 ^ FloatBits) * unit THEN unit ELSE UnitOf(n, 2 * unit)

RoundNat(n) ==
    LET unit == UnitOf(n, 1)
        q == n \div unit
        r == n % unit
    IN  IF 2 * r > unit \/ (2 * r = unit /\ q % 2 = 1) THEN (q + 1) * unit ELSE q * unit

Round(x) == IF x < 0 THEN 0 - RoundNat(0 - x) ELSE RoundNat(x)

\* total += amt_cell.value
FloatAdd(total, amount) == Round(total + amount)

\* ------------------------------------------------------------------ the report

NullText == <<"NULL">>

\* r["..."] or ""
OrEmpty(text) == IF text = NullText THEN <<>> ELSE text

\* str.capitalize() on the payment types the table admits
Capitalize(payment_type) ==
    CASE payment_type = "na" -> "Na"
      [] payment_type = "cash" -> "Cash"
      [] payment_type = "card" -> "Card"
      [] payment_type = "transfer" -> "Transfer"
      [] payment_type = "sinpe" -> "Sinpe"
      [] OTHER -> payment_type

\* "Sí" if flag else "No" (the accent left out of the model's text)
YesNo(flag) == IF flag # 0 THEN "Si" ELSE "No"

headers ==
    <<"Fecha", "Proveedor", "Pago", "Monto", "Moneda", "Factura Ref", "Ref Pago",
      "Enviado Email", "Factura Aparte", "Detalles">>

\* The ten cells ws.append writes for a row of the query
DataRow(r) ==
    <<r.date, r.proveedor, Capitalize(r.payment_type), r.amount, r.currency,
      OrEmpty(r.factura_ref), OrEmpty(r.payment_ref), YesNo(r.delivered_email),
      YesNo(r.factura_aparte), OrEmpty(r.details)>>

\* A worksheet is a function from <<row, column>> to the cell's value
MaxOf(S) == CHOOSE x \in S : \A y \in S : y <= x

\* ws.max_row
MaxRow(ws) == MaxOf({rc[1] : rc \in DOMAIN ws})

\* ws.append(values): the values go to the row after the last one written
AppendRow(ws, values) ==
    LET row == MaxRow(ws) + 1
    IN  [rc \in {<<row, col>> : col \in 1..Len(values)} |-> values[rc[2]]] @@ ws

\* ws.merge_cells("A1:J1") and the timestamp in A1
Banner ==
    [rc \in {<<1, col>> : col \in 1..10} |->
        IF rc[2] = 1 THEN "Generated on" ELSE "merged"]

RECURSIVE AppendRows(_, _)
\* for r in rows: ws.append([...])
AppendRows(ws, rows) ==
    IF rows = <<>> THEN ws
    ELSE AppendRows(AppendRow(ws, DataRow(Head(rows))), Tail(rows))

\* A loop that counts every currency other than CRC as USD
AccumulateElse(totals, row) ==
    IF row[5] = "CRC" THEN [totals EXCEPT !.crc = FloatAdd(@, row[4])]
    ELSE [totals EXCEPT !.usd = FloatAdd(@, row[4])]

\* if row[4].value == "CRC": total_crc += ... elif row[4].value == "USD": total_usd += ...
Accumulate(totals, row) ==
    IF row[5] = "CRC" THEN [totals EXCEPT !.crc = FloatAdd(@, row[4])]
    ELSE IF row[5] = "USD" THEN [totals EXCEPT !.usd = FloatAdd(@, row[4])]
    ELSE totals

SheetRow(ws, row) == [col \in 1..10 |-> ws[<<row, col>>]]

RECURSIVE ComputeTotals(_, _, _, _)
\* for i, row in enumerate(ws.iter_rows(min_row=3, max_row=ws.max_row, ...), start=3)
ComputeTotals(ws, row, max_row, totals) ==
    IF row > max_row THEN totals
    ELSE ComputeTotals(ws, row + 1, max_row, Accumulate(totals, SheetRow(ws, row)))

\* Totals placed after two blank rows
TotalRowAfterTwoBlank(ws) == MaxRow(ws) + 3

\* total_row = ws.max_row + 2
TotalRow(ws) == MaxRow(ws) + 2

\* ws[f"C{total_row}"] = "Total CRC:" ... ws[f"D{total_row+1}"] = total_usd
WriteTotals(ws, total_row, totals) ==
    (<<total_row, 3>> :> "Total CRC:") @@ (<<total_row, 4>> :> totals.crc) @@
    (<<total_row + 1, 3>> :> "Total USD:") @@ (<<total_row + 1, 4>> :> totals.usd) @@ ws

\* export_excel from wb = Workbook() on: the sheet built from the rows of the query
BuildSheet(rows) ==
    LET titled == AppendRow(Banner, headers)
        filled == AppendRows(titled, rows)
        totals == ComputeTotals(filled, 3, MaxRow(filled), [crc |-> 0, usd |-> 0])
    IN  WriteTotals(filled, TotalRow(filled), totals)

\* The response of the export: the sheet, and beside it the rows it was built from
Report(rows) == [rows |-> rows, sheet |-> BuildSheet(rows)]

\* GET /export
export_excel(args) ==
    LET rows == ExportQuery(args)
    IN  /\ last' = Request("export", 0, NULL, NULL, args, "attachment", Report(rows))
        /\ UNCHANGED <<providers, provSeq, expenses, expSeq, files, now, normalises,
                       submitted, rowset, conc>>

RECURSIVE SumAmounts(_, _)
\* sum(e["amount"] for e in ...): the builtin adds from 0, left to right (CPython 3.12
\* and later compensate the rounding of a sum of floats; the statistics enter no
\* property stated below)
SumAmounts(rows, total) ==
    IF rows = <<>> THEN total
    ELSE SumAmounts(Tail(rows), FloatAdd(total, Head(rows).amount))

Stats(rows) ==
    LET IsCRC(e) == e.currency = "CRC"
        IsUSD(e) == e.currency = "USD"
        Aparte(e) == e.factura_aparte # 0
        AparteCRC(e) == Aparte(e) /\ IsCRC(e)
        AparteUSD(e) == Aparte(e) /\ IsUSD(e)
    IN  [total_records |-> Len(rows),
         total_crc |-> SumAmounts(SelectSeq(rows, IsCRC), 0),
         total_usd |-> SumAmounts(SelectSeq(rows, IsUSD), 0),
         factura_aparte_count |-> Len(SelectSeq(rows, Aparte)),
         factura_aparte_crc |-> SumAmounts(SelectSeq(rows, AparteCRC), 0),
         factura_aparte_usd |-> SumAmounts(SelectSeq(rows, AparteUSD), 0)]

\* GET /: the listing with its statistics
index_get(args) ==
    LET rows == IndexQuery(args)
    IN  /\ last' = Request("index", 0, NULL, NULL, args, "page",
                           [expenses |-> rows, providers |-> providers,
                            current_month |-> now, stats |-> Stats(rows)])
        /\ UNCHANGED <<providers, provSeq, expenses, expSeq, files, now, normalises,
                       submitted, rowset, conc>>

\* The report generator applied to the row-set at hand
generate_report ==
    /\ last.op = "none"
    /\ last' = Request("report", 0, NULL, NULL, NULL, "attachment", Report(rowset))
    /\ UNCHANGED <<providers, provSeq, expenses, expSeq, files, now, normalises,
                   submitted, rowset, conc>>

\* ------------------------------------------------------------------ edit, step by step

\* Two edit requests served at once (the server is threaded). Each runs the handler's
\* three parts in order, and the parts of the two interleave: the SELECT of the
\* receipt in a connection of its own, the file handling, and the UPDATE in a second
\* connection; SQLite runs each statement atomically.
Handlers == {"uploader", "plain"}

Respond(p, result) ==
    /\ conc' = [conc EXCEPT ![p].pc = "done", ![p].result = result]
    /\ last' = Request("edit", conc[p].id, conc[p].form, conc[p].file, NULL, result, NULL)

\* with get_conn() as conn: e = conn.execute("SELECT receipt_path ...").fetchone()
edit_read(p) ==
    /\ conc[p].pc = "start"
    /\ conc' = [conc EXCEPT ![p].pc = "read",
                            ![p].current_receipt = CurrentReceipt(conc[p].id)]
    /\ UNCHANGED <<providers, provSeq, expenses, expSeq, files, now, normalises, last,
                   submitted, rowset>>

\* file = request.files.get("receipt_path") ... receipt_path = filename / current_receipt
edit_save(p) ==
    LET r == conc[p]
        receipt_path == ReceiptPath(r.file, r.current_receipt)
    IN  /\ r.pc = "read"
        /\ IF Uploaded(r.file) /\ receipt_path = <<>>
           THEN /\ Respond(p, "os_error")
                /\ UNCHANGED files
           ELSE /\ files' = IF Uploaded(r.file)
                            THEN SaveFile(files, receipt_path, r.file.content)
                            ELSE files
                /\ conc' = [conc EXCEPT ![p].pc = "saved", ![p].receipt_path = receipt_path]
                /\ UNCHANGED last
        /\ UNCHANGED <<providers, provSeq, expenses, expSeq, now, normalises, submitted,
                       rowset>>

\* data = (...); with get_conn() as conn: conn.execute("UPDATE expenses SET ...", data)
edit_update(p) ==
    LET r == conc[p]
        err == FormError(r.form)
        cols == Columns(r.form, r.receipt_path)
    IN  /\ r.pc = "saved"
        /\ IF err # "none"
           THEN Respond(p, err) /\ UNCHANGED expenses
           ELSE IF r.id \notin ExpenseIds
           THEN Respond(p, "redirect") /\ UNCHANGED expenses
           ELSE IF ~ConstraintsHold(cols)
           THEN Respond(p, "integrity_error") /\ UNCHANGED expenses
           ELSE Respond(p, "redirect") /\ expenses' = UpdateRow(r.id, cols)
        /\ UNCHANGED <<providers, provSeq, expSeq, files, now, normalises, submitted,
                       rowset>>

\* ------------------------------------------------------------------ provider-add alone

NameAlphabet == {"a", "A", " ", ",", "\n"}

RawNames == SeqsUpTo(NameAlphabet, MaxLen)

NoRequest == Request("none", 0, NULL, NULL, NULL, NULL, NULL)

InitStore ==
    /\ providers = {}
    /\ provSeq = 0
    /\ expenses = {}
    /\ expSeq = 0
    /\ files = {}
    /\ last = NoRequest
    /\ submitted = {}
    /\ rowset = <<>>
    /\ conc = <<>>

InitProviders ==
    /\ InitStore
    /\ now = <<2024, 3>>
    /\ normalises = FALSE

NextProviders == \E raw \in RawNames : add_provider(raw)

SpecProviders == InitProviders /\ [][NextProviders]_vars

\* ------------------------------------------------------------------ the store under requests

FormA ==
    [date |-> Text(<<2024, 3, 15>>), payment_ref |-> Text(<<"a">>),
     factura_ref |-> Text(<<"a">>), proveedor_id |-> Number(1),
     payment_type |-> Choice("cash"), amount |-> Number(1), currency |-> Choice("CRC"),
     details |-> Text(<<"a">>), delivered_email |-> FALSE, factura_aparte |-> FALSE,
     receipt_path |-> NoText]

FormB ==
    [date |-> Text(<<2024, 4, 1>>), payment_ref |-> NoText, factura_ref |-> NoText,
     proveedor_id |-> Number(2), payment_type |-> Choice("card"), amount |-> Number(2),
     currency |-> Choice("USD"), details |-> NoText, delivered_email |-> TRUE,
     factura_aparte |-> TRUE, receipt_path |-> Text(<<"b">>)]

ValidForms == {FormA, FormB}

\* Forms the code cannot turn into a column tuple
InvalidForms ==
    {[FormA EXCEPT !.date = NoDate],
     [FormA EXCEPT !.amount = NotANumber],
     [FormB EXCEPT !.proveedor_id = NotANumber]}

\* A well-typed form that names a provider id no provider row has
RejectedForms == {[FormA EXCEPT !.proveedor_id = Number(9)]}

Forms == ValidForms \cup InvalidForms \cup RejectedForms

NoFile == [present |-> FALSE, filename |-> <<>>, content |-> ""]

Upload(filename, content) == [present |-> TRUE, filename |-> filename, content |-> content]

UploadFiles ==
    {Upload(<<>>, "c1"), Upload(<<"/", "a">>, "c1"), Upload(<<".", ".">>, "c1")}

Files == {NoFile} \cup UploadFiles

RequestIds == 1..(MaxExpSeq + 1)

Init ==
    /\ InitStore
    /\ now = <<2024, 3>>
    /\ normalises = FALSE

Next ==
    \/ \E raw \in {<<"a">>, <<"b">>} : add_provider(raw)
    \/ \E form \in Forms : (Inserts(form) => expSeq < MaxExpSeq) /\ index_post(form)
    \/ \E id \in RequestIds, form \in Forms, file \in Files : edit(id, form, file)
    \/ \E id \in RequestIds : delete(id)

Spec == Init /\ [][Next]_vars

\* ------------------------------------------------------------------ claims on the store

\* What a step's request was, read from the response the step records
Served(op) == last'.op = op

\* The form is one the code accepts: every required field present, the numbers
\* numeric, the enumerations respected, the provider stored
AcceptableForm(form) ==
    /\ form.date.present
    /\ form.proveedor_id.present /\ form.proveedor_id.numeric
    /\ form.proveedor_id.value \in ProviderIds
    /\ form.payment_type.present /\ form.payment_type.value \in PaymentTypes
    /\ form.amount.present /\ form.amount.numeric
    /\ form.currency.present /\ form.currency.value \in Currencies

NamesUnknownProvider(form) ==
    /\ form.proveedor_id.present
    /\ form.proveedor_id.numeric
    /\ form.proveedor_id.value \notin ProviderIds

NoNewFile(file) == ~file.present \/ file.filename = <<>>

\* C3: an edit of a stored expense with an acceptable form and no new receipt file (no
\* file part, or one with an empty filename) succeeds, leaves receipt_path as it was
\* stored before the edit and sets every other column to the submitted value.
C3_EditWithoutFileKeepsReceipt ==
    [][(/\ Served("edit")
        /\ NoNewFile(last'.file)
        /\ last'.id \in ExpenseIds
        /\ AcceptableForm(last'.form))
       => LET old == CHOOSE e \in expenses : e.id = last'.id
              form == last'.form
          IN  /\ last'.result = "redirect"
              /\ \E new \in expenses' :
                    /\ new.id = last'.id
                    /\ new.receipt_path = old.receipt_path
                    /\ new.date = form.date.value
                    /\ new.payment_ref = (IF form.payment_ref.present
                                          THEN form.payment_ref.value ELSE <<>>)
                    /\ new.factura_ref = (IF form.factura_ref.present
                                          THEN form.factura_ref.value ELSE <<>>)
                    /\ new.proveedor_id = form.proveedor_id.value
                    /\ new.payment_type = form.payment_type.value
                    /\ new.amount = form.amount.value
                    /\ new.currency = form.currency.value
                    /\ new.details = (IF form.details.present
                                      THEN form.details.value ELSE <<>>)
                    /\ new.delivered_email = (IF form.delivered_email THEN 1 ELSE 0)
                    /\ new.factura_aparte = (IF form.factura_aparte THEN 1 ELSE 0)
              /\ Cardinality(expenses') = Cardinality(expenses)]_vars

\* C3's case: a row that carries an uploaded receipt and FormA's columns has been
\* edited with FormB and a file part whose filename is empty
C3_Witness ==
    /\ last.op = "edit"
    /\ last.result = "redirect"
    /\ last.file = Upload(<<>>, "c1")
    /\ last.form = FormB
    /\ \E e \in expenses :
          e.id = last.id /\ e.receipt_path = <<"a">> /\ e.date = <<2024, 4, 1>>

\* The request carries no new file, or one whose sanitised name is a usable file name
Saveable(file) == NoNewFile(file) \/ secure_filename(file.filename) # <<>>

\* C6: delete and edit of an id that no expense has return success and change neither
\* table nor the receipts directory (the edit with an acceptable form, with or without
\* an uploaded file that the receipts directory can take).
C6_UnknownIdIsNoop ==
    [][(/\ (Served("edit") \/ Served("delete"))
        /\ last'.id \notin ExpenseIds
        /\ (Served("edit") => AcceptableForm(last'.form) /\ Saveable(last'.file)))
       => /\ last'.result = "redirect"
          /\ expenses' = expenses
          /\ providers' = providers
          /\ files' = files]_vars

\* C7: a create or an edit that fails with a validation or type error has written
\* nothing: no expense row inserted or updated, no file written.
C7_ValidationBeforeWrite ==
    [][(/\ (Served("create") \/ Served("edit"))
        /\ last'.result \in {"bad_request", "value_error"})
       => /\ expenses' = expenses
          /\ files' = files]_vars

ReferentialIntegrity == \A e \in expenses : e.proveedor_id \in ProviderIds

TablesUnchanged == expenses' = expenses /\ providers' = providers

\* C8 as stated: every stored expense references a stored provider in every reachable
\* state, and every create or edit naming a provider id that is not stored fails and
\* leaves both tables unchanged.
C8_UnknownProviderAlwaysFails ==
    /\ []ReferentialIntegrity
    /\ [][(/\ (Served("create") \/ Served("edit"))
           /\ NamesUnknownProvider(last'.form))
          => last'.result # "redirect" /\ TablesUnchanged]_vars

\* C8 amended: every stored expense references a stored provider in every reachable
\* state; a create, or an edit of a stored expense, naming a provider id that is not
\* stored fails and leaves both tables unchanged; an edit of an id that is not stored
\* changes no table, whatever provider it names.
C8_ReferentialIntegrity ==
    /\ []ReferentialIntegrity
    /\ [][(/\ (Served("create") \/ Served("edit"))
           /\ NamesUnknownProvider(last'.form)
           /\ (Served("edit") => last'.id \in ExpenseIds))
          => last'.result # "redirect" /\ TablesUnchanged]_vars
    /\ [][(Served("edit") /\ last'.id \notin ExpenseIds) => TablesUnchanged]_vars

\* C8's case: with an expense stored, an edit of it naming provider 9 was refused
C8_Witness ==
    /\ last.op = "edit"
    /\ last.id \in ExpenseIds
    /\ last.form.proveedor_id = Number(9)
    /\ last.result = "integrity_error"

\* ------------------------------------------------------------------ claims on provider-add

ProviderNameSet == {p.name : p \in providers}

\* C4: the providers table holds exactly one row per distinct name ever submitted, names
\* compared trimmed and without regard to case; every stored name is non-empty, trimmed
\* and title-cased; a submission that brings no new name (a stored name again, in any
\* case and with any surrounding white space, or an input that is empty after trimming)
\* is answered with the redirect and leaves the providers rows as they were.
C4_ProviderAddDeduplicates ==
    /\ [](/\ {Lower(name) : name \in ProviderNameSet} = submitted
          /\ Cardinality(providers) = Cardinality(submitted)
          /\ \A p \in providers :
                /\ p.name # <<>>
                /\ ~IsSpace(p.name[1]) /\ ~IsSpace(p.name[Len(p.name)])
                /\ \A i \in 1..Len(p.name) :
                      IsLetter(p.name[i]) =>
                         (p.name[i] \in {"A", "B"}) = (i = 1 \/ ~IsLetter(p.name[i - 1]))
          /\ \A p, q \in providers : p.id = q.id => p = q)
    /\ [][Served("add_provider") =>
            /\ last'.result = "redirect"
            /\ providers \subseteq providers'
            /\ (submitted' = submitted => providers' = providers)]_vars

\* C4's case: a submission that names "A" twice ("a,A", say) was served when "A" was
\* stored already, and one provider is stored
C4_Witness ==
    /\ last.op = "add_provider"
    /\ last.form = <<(<<"A">>), (<<"A">>)>>
    /\ provSeq = 3
    /\ providers = {[id |-> 1, name |-> <<"A">>]}

\* ------------------------------------------------------------------ the report alone

ReportRow(amount, currency) ==
    [date |-> <<2024, 3, 15>>, proveedor |-> <<"A">>, payment_type |-> "cash",
     amount |-> amount, currency |-> currency, factura_ref |-> <<"a">>,
     payment_ref |-> <<>>, delivered_email |-> 0, factura_aparte |-> 1,
     details |-> NullText]

\* Rows as the query can return them, and rows of a currency the table's CHECK
\* would refuse, which the report generator is claimed to leave out of both totals
ReportRows == {ReportRow(amount, currency) : amount \in {1, 8}, currency \in {"CRC", "USD", "EUR"}}

InitReport ==
    /\ providers = {}
    /\ provSeq = 0
    /\ expenses = {}
    /\ expSeq = 0
    /\ files = {}
    /\ last = NoRequest
    /\ submitted = {}
    /\ conc = <<>>
    /\ rowset \in SeqsUpTo(ReportRows, MaxRows)
    /\ now = <<2024, 3>>
    /\ normalises = FALSE

NextReport == generate_report

SpecReport == InitReport /\ [][NextReport]_vars

\* ------------------------------------------------------------------ claims on the report

ReportMade == last.op = "report"

SheetRows(ws) == {rc[1] : rc \in DOMAIN ws}

HasLabel(ws, row, label) == <<row, 3>> \in DOMAIN ws /\ ws[<<row, 3>>] = label

\* The value beside a totals label, found by the label wherever the row is
TotalBeside(ws, label) ==
    LET row == CHOOSE r \in SheetRows(ws) : r > 2 /\ HasLabel(ws, r, label)
    IN  ws[<<row, 4>>]

Labelled(ws, label) == \E r \in SheetRows(ws) : r > 2 /\ HasLabel(ws, r, label)

RECURSIVE ExactSum(_, _)
\* The sum of amount over the rows of a currency, in exact arithmetic
ExactSum(rows, currency) ==
    IF rows = <<>> THEN 0
    ELSE (IF Head(rows).currency = currency THEN Head(rows).amount ELSE 0)
         + ExactSum(Tail(rows), currency)

RECURSIVE AbsSum(_, _)
AbsSum(rows, currency) ==
    IF rows = <<>> THEN 0
    ELSE (IF Head(rows).currency # currency THEN 0
          ELSE IF Head(rows).amount < 0 THEN 0 - Head(rows).amount
          ELSE Head(rows).amount)
         + AbsSum(Tail(rows), currency)

\* No addition of these amounts, in any order, needs rounding
SumsExactly(rows, currency) == AbsSum(rows, currency) <= 2 ^ FloatBits

RECURSIVE FloatSum(_, _, _)
\* The amounts of a currency added to a total one after the other, in row order, each
\* addition rounded as a floating-point addition is
FloatSum(rows, currency, total) ==
    IF rows = <<>> THEN total
    ELSE FloatSum(Tail(rows), currency,
                  IF Head(rows).currency = currency
                  THEN FloatAdd(total, Head(rows).amount) ELSE total)

Permuted(rows, perm) == [i \in 1..Len(rows) |-> rows[perm[i]]]

DataRowsAre(ws, rows) ==
    /\ \A i \in 1..Len(rows) :
          /\ <<i + 2, 4>> \in DOMAIN ws /\ <<i + 2, 5>> \in DOMAIN ws
          /\ ws[<<i + 2, 4>>] = rows[i].amount
          /\ ws[<<i + 2, 5>>] = rows[i].currency
    /\ \A r \in SheetRows(ws) :
          r <= Len(rows) + 2 \/ HasLabel(ws, r, "Total CRC:") \/ HasLabel(ws, r, "Total USD:")

\* C2 as stated: for every row-set the export succeeds with one data row per row, both
\* totals are the sums of amount over the rows of their currency (as floating-point
\* addition forms them), and every permutation of the rows gives the same totals.
C2_TotalsAreSums ==
    ReportMade =>
       /\ last.result = "attachment"
       /\ DataRowsAre(last.body.sheet, last.body.rows)
       /\ Labelled(last.body.sheet, "Total CRC:") /\ Labelled(last.body.sheet, "Total USD:")
       /\ TotalBeside(last.body.sheet, "Total CRC:") = FloatSum(last.body.rows, "CRC", 0)
       /\ TotalBeside(last.body.sheet, "Total USD:") = FloatSum(last.body.rows, "USD", 0)
       /\ \A perm \in Permutations(1..Len(last.body.rows)) :
             LET ws == BuildSheet(Permuted(last.body.rows, perm))
             IN  /\ TotalBeside(ws, "Total CRC:") = TotalBeside(last.body.sheet, "Total CRC:")
                 /\ TotalBeside(ws, "Total USD:") = TotalBeside(last.body.sheet, "Total USD:")

\* C2 amended: for every row-set, the empty one included, the export succeeds with one
\* data row per row in the order given; each total is the floating-point sum of the
\* amounts of its currency added to 0 in row order; rows of any other currency enter
\* neither total; an empty row-set gives no data row and both totals 0; and whenever
\* the amounts of a currency add without rounding, its total is their exact sum, the
\* same for every permutation of the rows.
C2_TotalsAreFloatSums ==
    ReportMade =>
       /\ last.result = "attachment"
       /\ DataRowsAre(last.body.sheet, last.body.rows)
       /\ Labelled(last.body.sheet, "Total CRC:") /\ Labelled(last.body.sheet, "Total USD:")
       /\ TotalBeside(last.body.sheet, "Total CRC:") = FloatSum(last.body.rows, "CRC", 0)
       /\ TotalBeside(last.body.sheet, "Total USD:") = FloatSum(last.body.rows, "USD", 0)
       /\ SumsExactly(last.body.rows, "CRC") =>
             TotalBeside(last.body.sheet, "Total CRC:") = ExactSum(last.body.rows, "CRC")
       /\ SumsExactly(last.body.rows, "USD") =>
             TotalBeside(last.body.sheet, "Total USD:") = ExactSum(last.body.rows, "USD")
       /\ last.body.rows = <<>> =>
             /\ TotalBeside(last.body.sheet, "Total CRC:") = 0
             /\ TotalBeside(last.body.sheet, "Total USD:") = 0
             /\ \A r \in SheetRows(last.body.sheet) : r <= 2 \/ <<r, 1>> \notin DOMAIN last.body.sheet

\* C2's case: a report of three rows, one of each currency and one not CRC or USD
C2_Witness ==
    /\ ReportMade
    /\ Len(last.body.rows) = 3
    /\ last.body.rows[1].currency = "EUR" /\ last.body.rows[2].currency = "CRC" /\ last.body.rows[3].currency = "USD"
    /\ TotalBeside(last.body.sheet, "Total CRC:") = 8
    /\ TotalBeside(last.body.sheet, "Total USD:") = 1

RowIsBlank(ws, row) == \A rc \in DOMAIN ws : rc[1] # row

\* C9 as stated: with N data rows in rows 3..N+2, rows N+3 and N+4 are blank, the
\* "Total CRC:" row is row N+5 and the "Total USD:" row is row N+6.
C9_TwoBlankRows ==
    ReportMade =>
       LET N == Len(last.body.rows)
       IN  /\ RowIsBlank(last.body.sheet, N + 3) /\ RowIsBlank(last.body.sheet, N + 4)
           /\ HasLabel(last.body.sheet, N + 5, "Total CRC:")
           /\ HasLabel(last.body.sheet, N + 6, "Total USD:")

\* C9 amended: with N data rows in rows 3..N+2 (N >= 0), exactly one row, row N+3, is
\* blank; the "Total CRC:" label and value are in row N+4, the "Total USD:" label and
\* value in row N+5 directly below, and nothing is written further down.
C9_OneBlankRow ==
    ReportMade =>
       LET N == Len(last.body.rows)
           ws == last.body.sheet
       IN  /\ \A row \in 1..(N + 2) : <<row, 1>> \in DOMAIN ws
           /\ RowIsBlank(ws, N + 3)
           /\ HasLabel(ws, N + 4, "Total CRC:") /\ <<N + 4, 4>> \in DOMAIN ws
           /\ HasLabel(ws, N + 5, "Total USD:") /\ <<N + 5, 4>> \in DOMAIN ws
           /\ MaxRow(ws) = N + 5

\* C9's case: a report of two data rows, with "Total CRC:" in row 6
C9_Witness ==
    /\ ReportMade
    /\ Len(last.body.rows) = 2
    /\ HasLabel(last.body.sheet, 6, "Total CRC:")

\* ------------------------------------------------------------------ the store under queries

QueryDates == {<<2024, 3, 15>>, <<2024, 3, 16>>, <<2024, 4, 1>>, <<2023, 3, 1>>,
               <<2024, 3, 32>>, <<2024, 2, 30>>}

QueryForm(date, proveedor_id, payment_type) ==
    [FormA EXCEPT !.date = Text(date), !.proveedor_id = Number(proveedor_id),
                  !.payment_type = Choice(payment_type)]

QueryForms ==
    {QueryForm(date, 1, "cash") : date \in QueryDates} \cup
    {QueryForm(<<2024, 3, 16>>, 2, "card")}

\* The filters of a GET: month absent, empty or 2024-03; provider absent or "1";
\* payment_type absent or "cash"
QueryArgs ==
    [month : {Absent, Given(<<>>), Given(<<2024, 3>>)},
     provider : {Absent, Given(<<1>>)},
     payment_type : {Absent, Given(<<"cash">>)}]

InitQuery ==
    /\ InitStore
    /\ now = <<2024, 4>>
    /\ normalises \in BOOLEAN

NextQuery ==
    \/ add_provider(<<"a", ",", "b">>)
    \/ \E form \in QueryForms : expSeq < MaxQueryRows /\ index_post(form)
    \/ \E args \in QueryArgs : index_get(args)
    \/ \E args \in QueryArgs : export_excel(args)

SpecQuery == InitQuery /\ [][NextQuery]_vars

\* ------------------------------------------------------------------ claims on the query

\* The data rows of a sheet: the rows after the header, up to the first blank one
RECURSIVE SheetDataFrom(_, _)
SheetDataFrom(ws, row) ==
    IF <<row, 1>> \notin DOMAIN ws THEN <<>>
    ELSE <<SheetRow(ws, row)>> \o SheetDataFrom(ws, row + 1)

SheetData(ws) == SheetDataFrom(ws, 3)

\* What the export would write for the rows of a listing
AsDataRows(listing) == [i \in 1..Len(listing) |-> DataRow(listing[i])]

WithMonth(args, month) == [args EXCEPT !.month = Given(month)]

\* C1 as stated: for every combination of the filters, each present or absent, the
\* data rows of the export are the expenses of the listing for the same filter values,
\* in the same order.
C1_ExportMatchesListing ==
    /\ last.op = "export" =>
          SheetData(last.body.sheet) = AsDataRows(IndexQuery(last.args))
    /\ last.op = "index" =>
          AsDataRows(last.body.expenses) = SheetData(BuildSheet(ExportQuery(last.args)))

\* C1 amended: for every combination of the provider and payment_type filters, each
\* present or absent, and a month filter that is present and not empty, the data rows
\* of the export are the expenses of the listing for the same filter values, in the
\* same order; without a month (absent or empty) the listing shows what the export
\* shows for the current month, while the export itself is not filtered by month.
C1_ExportMatchesListingOfMonth ==
    /\ (last.op = "export" /\ Truthy(last.args.month)) =>
          SheetData(last.body.sheet) = AsDataRows(IndexQuery(last.args))
    /\ (last.op = "index" /\ Truthy(last.args.month)) =>
          AsDataRows(last.body.expenses) = SheetData(BuildSheet(ExportQuery(last.args)))
    /\ (last.op = "index" /\ ~Truthy(last.args.month)) =>
          AsDataRows(last.body.expenses) =
             SheetData(BuildSheet(ExportQuery(WithMonth(last.args, now))))
    /\ (last.op = "export" /\ ~Truthy(last.args.month)) =>
          \A e \in expenses :
             (/\ Truthy(last.args.provider) => <<e.proveedor_id>> = last.args.provider.value
              /\ Truthy(last.args.payment_type) =>
                    <<e.payment_type>> = last.args.payment_type.value)
             => \E i \in 1..Len(last.body.rows) : last.body.rows[i] = ExportRow(Joined(e))

\* C1's case: an export under all three filters that put two rows of different dates
\* in the sheet, the later first
C1_Witness ==
    /\ last.op = "export"
    /\ last.args = [month |-> Given(<<2024, 3>>), provider |-> Given(<<1>>),
                    payment_type |-> Given(<<"cash">>)]
    /\ Len(last.body.rows) = 2
    /\ last.body.sheet[<<3, 1>>] = <<2024, 3, 16>>
    /\ last.body.sheet[<<4, 1>>] = <<2024, 3, 15>>
    /\ Cardinality(expenses) = 2

\* The rows a GET returned, as the columns both queries select
Returned ==
    IF last.op = "export" THEN last.body.rows
    ELSE [i \in 1..Len(last.body.expenses) |-> ExportRow(last.body.expenses[i])]

IsReturned(e) == \E i \in 1..Len(Returned) : Returned[i] = ExportRow(Joined(e))

OtherFiltersAdmit(e, args) ==
    /\ Truthy(args.provider) => <<e.proveedor_id>> = args.provider.value
    /\ Truthy(args.payment_type) => <<e.payment_type>> = args.payment_type.value

\* The date text names a day of the calendar
IsCalendarDate(date) ==
    /\ date[2] \in 1..12
    /\ date[3] \in 1..DaysInMonth(date[1], date[2])

MonthQueried == last.op \in {"index", "export"} /\ Truthy(last.args.month)

\* The dates every SQLite build treats alike: the calendar dates, and the texts whose
\* month or day is out of range
BuildIndependent(date) ==
    IsCalendarDate(date) \/ date[2] \notin 1..12 \/ date[3] \notin 1..31

EditRequest(id, form, file) ==
    [pc |-> "start", id |-> id, form |-> form, file |-> file,
     current_receipt |-> <<>>, receipt_path |-> <<>>, result |-> ""]

\* One stored expense, with or without a receipt, and two edits of it in flight: one
\* uploads a file, the other supplies none (no file part, or an empty filename)
InitConc ==
    /\ providers = {[id |-> 1, name |-> <<"A">>], [id |-> 2, name |-> <<"B">>]}
    /\ provSeq = 2
    /\ \E receipt \in {<<>>, <<"b">>} :
          expenses = {WithId(1, Columns(FormA, receipt))}
    /\ expSeq = 1
    /\ files = {}
    /\ now = <<2024, 3>>
    /\ normalises = FALSE
    /\ last = NoRequest
    /\ submitted = {<<"a">>, <<"b">>}
    /\ rowset = <<>>
    /\ \E f1, f2 \in ValidForms :
       \E upload \in {Upload(<<"/", "a">>, "c1"), Upload(<<"a">>, "c2")} :
       \E nofile \in {NoFile, Upload(<<>>, "c1")} :
          conc = [p \in Handlers |->
                     IF p = "uploader" THEN EditRequest(1, f1, upload)
                     ELSE EditRequest(1, f2, nofile)]

NextConc ==
    \E p \in Handlers : edit_read(p) \/ edit_save(p) \/ edit_update(p)

SpecConc == InitConc /\ [][NextConc]_vars

BothDone == \A p \in Handlers : conc[p].pc = "done"

\* C10: once both edits have completed, whatever the interleaving, the expense's
\* receipt_path is the sanitised name of the uploaded file: the edit without a file
\* never puts back the value it read earlier.
C10_NoStaleReceipt ==
    BothDone =>
       \A e \in expenses :
          e.id = 1 => e.receipt_path = secure_filename(conc["uploader"].file.filename)

====
